---- MODULE Spec2Model ----
(***************************************************************************)
(* A model of download-worker.py: the plugin listing is read page by page  *)
(* (fetch_plugins), filtered by install count (filter_plugins), and the    *)
(* matching archives are downloaded by a pool of ten worker threads        *)
(* (download_plugin under ThreadPoolExecutor.map), whose results the main  *)
(* thread consumes in submission order.                                    *)
(*                                                                         *)
(* The two remote endpoints and the destination directory are the inputs.  *)
(* The listing endpoint is a script, one reply per page number, fixed in   *)
(* the initial state; the download endpoint answers each request with any  *)
(* reply it can give; the destination directory starts empty or holding    *)
(* what earlier runs left in it.                                           *)
(***************************************************************************)
EXTENDS Integers, Sequences, FiniteSets, TLC

\* ------------------------------------------------------------------ bounds

\* Longest listing script: the number of non-empty pages before the listing
\* ends or fails.
MaxPages == 2

\* Number of 64 KiB chunks in the body of one archive.
NumChunks == 1

\* Number of plugins of the large listing, all in range: more than the pool
\* has workers, so that items wait in the executor's queue.
PoolSize == 11

\* --------------------------------------------------------------- constants

\* ThreadPoolExecutor(max_workers=10)
max_workers == 10

\* ------------------------------------------------------------------ inputs

Slugs == 1..PoolSize

\* One entry of the listing; active_installs may be missing from the payload.
Rec(s, n) == [slug |-> s, active_installs |-> n]
RecNoInstalls(s) == [slug |-> s]

\* The pages a small listing is made of.
PageSet ==
    { << Rec(1, 1), Rec(3, 2) >>,
      << RecNoInstalls(2) >> }

\* A reply of the listing endpoint: an exception raised by requests.get, or
\* a response with a status and (for 200) the decoded "plugins" list.
ListingOK(items) == [exc |-> "none", status |-> 200, plugins |-> items]
ListingHTTP(st) == [exc |-> "none", status |-> st, plugins |-> << >>]
ListingExc(e) == [exc |-> e, status |-> 0, plugins |-> << >>]

ListingFailures == { ListingHTTP(503), ListingExc("ConnectionError") }

\* Sequences of length n over S.
SeqsOfLen(S, n) == [1..n -> S]

\* Listing scripts: up to MaxPages non-empty pages, then either the end of
\* the listing or one failing reply, which a page the endpoint would have
\* served next may follow.  Past its script the endpoint answers 200 with an
\* empty list.
OkScripts ==
    UNION { SeqsOfLen({ ListingOK(p) : p \in PageSet }, n) : n \in 0..MaxPages }

FailingScripts == { Append(s, f) : s \in OkScripts, f \in ListingFailures }

ListingScripts ==
    OkScripts \cup FailingScripts
        \cup { Append(s, ListingOK(p)) :
                s \in { x \in FailingScripts : Len(x) <= MaxPages },
                p \in PageSet }

\* The large listing: one page of PoolSize plugins, each with one install.
PoolPage == [i \in 1..PoolSize |-> Rec(i, 1)]

\* --min / --max
InstallArgs == 0..1

\* A file of the destination directory.
NoFile == [exists |-> FALSE, data |-> << >>]
File(d) == [exists |-> TRUE, data |-> d]

\* The body the download endpoint serves for a slug, chunk by chunk.
Body(s) == [k \in 1..NumChunks |-> << s, k >>]

\* What a sparse write leaves in a gap.
Hole == << 0, 0 >>

EmptyStore == [s \in Slugs |-> NoFile]

\* Destination directories of a small run: empty, or holding what an
\* earlier run left for slug 1, a finished or a truncated archive.
SmallStores ==
    { EmptyStore,
      [EmptyStore EXCEPT ![1] = File(Body(1))],
      [EmptyStore EXCEPT ![1] = File(<< >>)] }

\* Destination directory of the large run: every archive but the first is
\* already there.
PoolStore == [s \in Slugs |-> IF s = 1 THEN NoFile ELSE File(Body(s))]

\* Replies of the download endpoint to requests.get(url, stream=True,
\* timeout=30).
DownloadStatuses == { 200, 404, 500 }
DownloadExceptions == { "Timeout", "ConnectionError" }
StreamException == "ChunkedEncodingError"

\* ------------------------------------------------------------------- state

VARIABLES
    listing,        \* the listing endpoint: its reply to each page number
    min_installs,   \* args.min
    max_installs,   \* args.max
    store0,         \* the destination directory as the run found it
    files,          \* the destination directory: slug -> {slug}.zip
    pc,             \* main: "fetch", "filter", "dispatch", "done", "crashed"
    page,           \* fetch_plugins: page
    all_plugins,    \* fetch_plugins: all_plugins
    requested,      \* page numbers asked of the listing endpoint, in order
    plugins,        \* main: plugins
    filtered,       \* main: filtered
    slugs,          \* main: slugs, the items submitted to the executor
    tpc,            \* per item: "queued", "called", "requesting", "writing",
                    \*           "returned"
    pos,            \* per item: offset of its open file, in chunks
    resp,           \* per item: what requests.get gave it
    outcome,        \* per item: what download_plugin returned
    calls,          \* per item: invocations of download_plugin
    reqs,           \* per item: requests sent to the download endpoint
    results         \* main: results, as far as the iterator has yielded

vars ==
    << listing, min_installs, max_installs, store0, files, pc, page,
       all_plugins, requested, plugins, filtered, slugs, tpc, pos, resp,
       outcome, calls, reqs, results >>

inputVars == << listing, min_installs, max_installs, store0 >>
pagingVars == << page, all_plugins, requested >>
taskVars == << tpc, pos, resp, outcome, calls, reqs >>

Items == 1..Len(slugs)

\* ------------------------------------------------------------ fetch_plugins

\* The listing endpoint's reply to a request for page n.
ListingReply(n) ==
    IF n \in 1..Len(listing) THEN listing[n] ELSE ListingOK(<< >>)

\* (mutant) all_plugins = plugins: each page replaces what was collected.
ExtendOverwrite(all, items) == items

\* all_plugins.extend(plugins)
Extend(all, items) == all \o items

\* (mutant) A failed page is skipped, and the loop goes on to the next.
FetchPageSkipFailed ==
    /\ pc = "fetch"
    /\ LET r == ListingReply(page) IN
        /\ requested' = Append(requested, page)
        /\ IF r.exc # "none"
           THEN /\ pc' = "crashed"
                /\ UNCHANGED << page, all_plugins, plugins >>
           ELSE IF r.status # 200
           THEN /\ page' = page + 1
                /\ UNCHANGED << pc, all_plugins, plugins >>
           ELSE IF r.plugins = << >>
           THEN /\ pc' = "filter"
                /\ plugins' = all_plugins
                /\ UNCHANGED << page, all_plugins >>
           ELSE /\ all_plugins' = Extend(all_plugins, r.plugins)
                /\ page' = page + 1
                /\ UNCHANGED << pc, plugins >>
    /\ UNCHANGED << inputVars, files, filtered, slugs, taskVars, results >>

\* One turn of the while loop: request the page, then stop or accumulate.
\* An exception of requests.get is caught nowhere: it leaves fetch_plugins
\* and main, and the process ends with a traceback.
FetchPage ==
    /\ pc = "fetch"
    /\ LET r == ListingReply(page) IN
        /\ requested' = Append(requested, page)
        /\ IF r.exc # "none"
           THEN /\ pc' = "crashed"
                /\ UNCHANGED << page, all_plugins, plugins >>
           ELSE IF r.status # 200 \/ r.plugins = << >>
           THEN /\ pc' = "filter"
                /\ plugins' = all_plugins
                /\ UNCHANGED << page, all_plugins >>
           ELSE /\ all_plugins' = Extend(all_plugins, r.plugins)
                /\ page' = page + 1
                /\ UNCHANGED << pc, plugins >>
    /\ UNCHANGED << inputVars, files, filtered, slugs, taskVars, results >>

\* ----------------------------------------------------------- filter_plugins

\* (mutant) A record without active_installs counts as 1.
ActiveInstallsDefaultOne(p) ==
    IF "active_installs" \in DOMAIN p THEN p.active_installs ELSE 1

\* p.get("active_installs", 0)
ActiveInstalls(p) ==
    IF "active_installs" \in DOMAIN p THEN p.active_installs ELSE 0

\* (mutant) The upper bound is exclusive.
InRangeExclusiveMax(p, lo, hi) ==
    lo <= ActiveInstalls(p) /\ ActiveInstalls(p) < hi

\* min_installs <= p.get("active_installs", 0) <= max_installs
InRange(p, lo, hi) == lo <= ActiveInstalls(p) /\ ActiveInstalls(p) <= hi

\* [p for p in plugins if ...]
RECURSIVE filter_plugins(_, _, _)
filter_plugins(ps, lo, hi) ==
    IF ps = << >> THEN << >>
    ELSE IF InRange(Head(ps), lo, hi)
         THEN << Head(ps) >> \o filter_plugins(Tail(ps), lo, hi)
         ELSE filter_plugins(Tail(ps), lo, hi)

\* ---------------------------------------------------------- download_plugin

NoOutcome == [tag |-> "none", slug |-> 0, status |-> 0, msg |-> ""]
\* "[SKIP] {slug} (already downloaded)"
Skipped(s) == [tag |-> "SKIP", slug |-> s, status |-> 0, msg |-> ""]
\* "[OK] {slug}"
Succeeded(s) == [tag |-> "OK", slug |-> s, status |-> 0, msg |-> ""]
\* "[FAIL] {slug} (HTTP {resp.status_code})"
FailedHTTP(s, st) == [tag |-> "FAIL", slug |-> s, status |-> st, msg |-> ""]
\* "[ERROR] {slug}: {e}"
FailedTransport(s, e) == [tag |-> "ERROR", slug |-> s, status |-> 0, msg |-> e]
\* An exception that leaves download_plugin: the future holds it.
Raised(s, e) == [tag |-> "RAISED", slug |-> s, status |-> 0, msg |-> e]

\* (mutant) except requests.Timeout: any other exception leaves the call.
ExceptTimeoutOnly(s, e) ==
    IF e = "Timeout" THEN FailedTransport(s, e) ELSE Raised(s, e)

\* except Exception as e: return ...
Except(s, e) == FailedTransport(s, e)

NoResp == [exc |-> "none", status |-> 0]
DownloadReplies ==
    { [exc |-> "none", status |-> st] : st \in DownloadStatuses }
        \cup { [exc |-> e, status |-> 0] : e \in DownloadExceptions }

\* (mutant) A file counts as downloaded only if it holds the whole body.
ExistsComplete(s) == files[s].exists /\ files[s].data = Body(s)

\* os.path.exists(path)
Exists(s) == files[s].exists

\* f.write(chunk) at offset off of a file holding data: a write past the
\* end leaves a gap.
WriteAt(data, off, chunk) ==
    IF off < Len(data)
    THEN [data EXCEPT ![off + 1] = chunk]
    ELSE data \o [k \in 1..(off - Len(data)) |-> Hole] \o << chunk >>

\* Items a worker has taken from the queue and not yet finished.
InFlight == { i \in Items : tpc[i] \in { "called", "requesting", "writing" } }

\* (mutant) One thread too many.
WorkerFreeOffByOne == Cardinality(InFlight) <= max_workers

\* (mutant) max_workers=1: the items are run one after the other.
WorkerFreeSingle == Cardinality(InFlight) < 1

\* The pool has a worker to spare: at most max_workers threads exist, each
\* running one item at a time.
WorkerFree == Cardinality(InFlight) < max_workers

Return(i, o) ==
    /\ tpc' = [tpc EXCEPT ![i] = "returned"]
    /\ outcome' = [outcome EXCEPT ![i] = o]

\* (mutant) The queue hands an item to a second worker while the first has
\* only just taken it.
StartRacy(i) ==
    /\ pc = "dispatch"
    /\ tpc[i] \in { "queued", "called" }
    /\ calls[i] < 2
    /\ \A j \in 1..(i - 1) : tpc[j] # "queued"
    /\ WorkerFree
    /\ tpc' = [tpc EXCEPT ![i] = "called"]
    /\ calls' = [calls EXCEPT ![i] = @ + 1]
    /\ UNCHANGED << inputVars, files, pc, pagingVars, plugins, filtered,
                    slugs, pos, resp, outcome, reqs, results >>

\* A worker takes the next item of the queue, in submission order, and
\* calls download_plugin on it.
Start(i) ==
    /\ pc = "dispatch"
    /\ tpc[i] = "queued"
    /\ \A j \in 1..(i - 1) : tpc[j] # "queued"
    /\ WorkerFree
    /\ tpc' = [tpc EXCEPT ![i] = "called"]
    /\ calls' = [calls EXCEPT ![i] = @ + 1]
    /\ UNCHANGED << inputVars, files, pc, pagingVars, plugins, filtered,
                    slugs, pos, resp, outcome, reqs, results >>

\* if os.path.exists(path): return "[SKIP] ..."; otherwise the request is
\* sent.
CheckExists(i) ==
    /\ tpc[i] = "called"
    /\ IF Exists(slugs[i])
       THEN /\ Return(i, Skipped(slugs[i]))
            /\ UNCHANGED reqs
       ELSE /\ tpc' = [tpc EXCEPT ![i] = "requesting"]
            /\ reqs' = [reqs EXCEPT ![i] = @ + 1]
            /\ UNCHANGED outcome
    /\ UNCHANGED << inputVars, files, pc, pagingVars, plugins, filtered,
                    slugs, pos, resp, calls, results >>

\* (mutant) The file is opened before the status is looked at.
RespondOpenFirst(i) ==
    /\ tpc[i] = "requesting"
    /\ \E r \in DownloadReplies :
        /\ resp' = [resp EXCEPT ![i] = r]
        /\ IF r.exc # "none"
           THEN /\ Return(i, Except(slugs[i], r.exc))
                /\ UNCHANGED << files, pos >>
           ELSE IF r.status = 200
           THEN /\ files' = [files EXCEPT ![slugs[i]] = File(<< >>)]
                /\ tpc' = [tpc EXCEPT ![i] = "writing"]
                /\ pos' = [pos EXCEPT ![i] = 0]
                /\ UNCHANGED outcome
           ELSE /\ files' = [files EXCEPT ![slugs[i]] = File(<< >>)]
                /\ Return(i, FailedHTTP(slugs[i], r.status))
                /\ UNCHANGED pos
    /\ UNCHANGED << inputVars, pc, pagingVars, plugins, filtered, slugs,
                    calls, reqs, results >>

\* requests.get returns or raises.  On 200 the file is opened "wb", which
\* creates it, or empties it if it is there; on another status the call
\* returns; an exception goes to the except clause.
Respond(i) ==
    /\ tpc[i] = "requesting"
    /\ \E r \in DownloadReplies :
        /\ resp' = [resp EXCEPT ![i] = r]
        /\ IF r.exc # "none"
           THEN /\ Return(i, Except(slugs[i], r.exc))
                /\ UNCHANGED << files, pos >>
           ELSE IF r.status = 200
           THEN /\ files' = [files EXCEPT ![slugs[i]] = File(<< >>)]
                /\ tpc' = [tpc EXCEPT ![i] = "writing"]
                /\ pos' = [pos EXCEPT ![i] = 0]
                /\ UNCHANGED outcome
           ELSE /\ Return(i, FailedHTTP(slugs[i], r.status))
                /\ UNCHANGED << files, pos >>
    /\ UNCHANGED << inputVars, pc, pagingVars, plugins, filtered, slugs,
                    calls, reqs, results >>

\* for chunk in resp.iter_content(...): f.write(chunk)
WriteChunk(i) ==
    /\ tpc[i] = "writing"
    /\ pos[i] < NumChunks
    /\ files' = [files EXCEPT ![slugs[i]] =
                    File(WriteAt(@.data, pos[i], Body(slugs[i])[pos[i] + 1]))]
    /\ pos' = [pos EXCEPT ![i] = @ + 1]
    /\ UNCHANGED << inputVars, pc, pagingVars, plugins, filtered, slugs,
                    tpc, resp, outcome, calls, reqs, results >>

\* The connection fails while the body is streamed: iter_content raises, the
\* with block closes the file as it is, and the except clause returns.
StreamFail(i) ==
    /\ tpc[i] = "writing"
    /\ pos[i] < NumChunks
    /\ resp' = [resp EXCEPT ![i].exc = StreamException]
    /\ Return(i, Except(slugs[i], StreamException))
    /\ UNCHANGED << inputVars, files, pc, pagingVars, plugins, filtered,
                    slugs, pos, calls, reqs, results >>

\* (mutant) "[OK] ..." is returned before the body is exhausted.
ReturnOKEarly(i) ==
    /\ tpc[i] = "writing"
    /\ Return(i, Succeeded(slugs[i]))
    /\ UNCHANGED << inputVars, files, pc, pagingVars, plugins, filtered,
                    slugs, pos, resp, calls, reqs, results >>

\* The body is exhausted: the file is closed and "[OK] ..." returned.
ReturnOK(i) ==
    /\ tpc[i] = "writing"
    /\ pos[i] = NumChunks
    /\ Return(i, Succeeded(slugs[i]))
    /\ UNCHANGED << inputVars, files, pc, pagingVars, plugins, filtered,
                    slugs, pos, resp, calls, reqs, results >>

\* --------------------------------------------------------------------- main

\* (mutant) The unfiltered list is tested and submitted.
FilterAndSubmitUnfiltered ==
    /\ pc = "filter"
    /\ LET f == filter_plugins(plugins, min_installs, max_installs)
           n == Len(plugins)
       IN
        /\ filtered' = f
        /\ IF plugins = << >>
           THEN /\ pc' = "done"
                /\ UNCHANGED << slugs, taskVars >>
           ELSE /\ pc' = "dispatch"
                /\ slugs' = [i \in 1..n |-> plugins[i].slug]
                /\ tpc' = [i \in 1..n |-> "queued"]
                /\ pos' = [i \in 1..n |-> 0]
                /\ resp' = [i \in 1..n |-> NoResp]
                /\ outcome' = [i \in 1..n |-> NoOutcome]
                /\ calls' = [i \in 1..n |-> 0]
                /\ reqs' = [i \in 1..n |-> 0]
    /\ UNCHANGED << inputVars, files, pagingVars, plugins, results >>

\* Lines 85-96 up to the submission: filter, return if nothing matched,
\* otherwise hand every slug to the executor (map submits them all at once).
FilterAndSubmit ==
    /\ pc = "filter"
    /\ LET f == filter_plugins(plugins, min_installs, max_installs)
           n == Len(f)
       IN
        /\ filtered' = f
        /\ IF f = << >>
           THEN /\ pc' = "done"
                /\ UNCHANGED << slugs, taskVars >>
           ELSE /\ pc' = "dispatch"
                /\ slugs' = [i \in 1..n |-> f[i].slug]
                /\ tpc' = [i \in 1..n |-> "queued"]
                /\ pos' = [i \in 1..n |-> 0]
                /\ resp' = [i \in 1..n |-> NoResp]
                /\ outcome' = [i \in 1..n |-> NoOutcome]
                /\ calls' = [i \in 1..n |-> 0]
                /\ reqs' = [i \in 1..n |-> 0]
    /\ UNCHANGED << inputVars, files, pagingVars, plugins, results >>

\* (mutant) as_completed: any finished item not yet yielded is yielded.
CollectAsCompleted ==
    /\ pc = "dispatch"
    /\ Len(results) < Len(slugs)
    /\ \E i \in Items :
        /\ tpc[i] = "returned"
        /\ \A k \in 1..Len(results) : results[k].slug # slugs[i]
        /\ IF outcome[i].tag = "RAISED"
           THEN pc' = "crashed" /\ UNCHANGED results
           ELSE results' = Append(results, outcome[i]) /\ UNCHANGED pc
    /\ UNCHANGED << inputVars, files, pagingVars, plugins, filtered, slugs,
                    taskVars >>

\* The result iterator of executor.map yields the results in submission
\* order, each once its item has finished; tqdm counts what it yields and
\* list() appends it.  A result that is an exception is raised here.
Collect ==
    /\ pc = "dispatch"
    /\ Len(results) < Len(slugs)
    /\ LET i == Len(results) + 1 IN
        /\ tpc[i] = "returned"
        /\ IF outcome[i].tag = "RAISED"
           THEN pc' = "crashed" /\ UNCHANGED results
           ELSE results' = Append(results, outcome[i]) /\ UNCHANGED pc
    /\ UNCHANGED << inputVars, files, pagingVars, plugins, filtered, slugs,
                    taskVars >>

\* The iterator is exhausted: the executor shuts down and main prints the
\* outcome lines.
Finish ==
    /\ pc = "dispatch"
    /\ Len(results) = Len(slugs)
    /\ pc' = "done"
    /\ UNCHANGED << inputVars, files, pagingVars, plugins, filtered, slugs,
                    taskVars, results >>

\* ------------------------------------------------------------ specification

Start0 ==
    /\ pc = "fetch"
    /\ page = 1
    /\ all_plugins = << >>
    /\ requested = << >>
    /\ plugins = << >>
    /\ filtered = << >>
    /\ slugs = << >>
    /\ tpc = << >>
    /\ pos = << >>
    /\ resp = << >>
    /\ outcome = << >>
    /\ calls = << >>
    /\ reqs = << >>
    /\ results = << >>
    /\ files = store0

\* A small listing against any range and a small destination directory.
SmallInit ==
    /\ listing \in ListingScripts
    /\ min_installs \in InstallArgs
    /\ max_installs \in InstallArgs
    /\ store0 \in SmallStores

\* The large listing, every plugin in range, all but one already downloaded.
PoolInit ==
    /\ listing = << ListingOK(PoolPage) >>
    /\ min_installs = 0
    /\ max_installs = 1
    /\ store0 = PoolStore

Init == (SmallInit \/ PoolInit) /\ Start0

Next ==
    \/ FetchPage
    \/ FilterAndSubmit
    \/ \E i \in Items : Start(i)
    \/ \E i \in Items : CheckExists(i)
    \/ \E i \in Items : Respond(i)
    \/ \E i \in Items : WriteChunk(i)
    \/ \E i \in Items : StreamFail(i)
    \/ \E i \in Items : ReturnOK(i)
    \/ Collect
    \/ Finish

Spec == Init /\ [][Next]_vars

\* The items other than the first, whose fetch may be slow or hang.
Others == Items \ { 1 }

\* What the threads do without waiting for the first item's connection: the
\* steps of the worker threads that need no network, the network steps of
\* the other items (each request and each read of the body returns or raises
\* within its timeout of 30 seconds), and the main thread's consumption of
\* the results.
Progress ==
    \/ \E i \in Items : Start(i) \/ CheckExists(i) \/ ReturnOK(i)
    \/ \E i \in Others : Respond(i) \/ WriteChunk(i) \/ StreamFail(i)
    \/ Collect
    \/ Finish

\* The threads are scheduled: as long as one of these steps is possible, one
\* is taken.  Nothing is assumed of the first item's connection.
FairSpec == Spec /\ WF_vars(Progress)

\* ------------------------------------------------------------------- claims

OutcomeTags == { "SKIP", "OK", "FAIL", "ERROR" }

Returned(i) == tpc[i] = "returned"

\* C1: once the download phase has finished, every submitted slug has been
\* passed to download_plugin exactly once, and the results hold exactly one
\* outcome per submitted slug, each of them one of the four outcomes.
C1_OneOutcomePerSlug ==
    (pc = "done" /\ slugs # << >>) =>
        /\ \A i \in Items : calls[i] = 1
        /\ Len(results) = Len(slugs)
        /\ \A k \in 1..Len(results) : results[k].tag \in OutcomeTags
        /\ \A s \in Slugs :
            Cardinality({ k \in 1..Len(results) : results[k].slug = s })
                = Cardinality({ i \in Items : slugs[i] = s })

\* A finished batch of two with one success and one failure.
C1_Witness ==
    /\ pc = "done"
    /\ Len(slugs) >= 2
    /\ \E j, k \in 1..Len(results) :
        results[j].tag = "OK" /\ results[k].tag \in { "FAIL", "ERROR" }

\* C2: at every instant at most 10 invocations of download_plugin have
\* started and not yet returned, however many slugs wait in the queue.
C2_AtMostTenInFlight == Cardinality(InFlight) <= 10

\* Ten invocations in flight while a slug still waits.
C2_Witness ==
    /\ Cardinality(InFlight) = 10
    /\ \E i \in Items : tpc[i] = "queued"

\* C3: an invocation that finds its destination file there returns Skipped
\* in that step, sends no request and leaves every file as it is.
C3_SkipWhenPresent ==
    [][\A i \in Items :
        (tpc[i] = "called" /\ tpc'[i] # "called" /\ files[slugs[i]].exists)
            => /\ tpc'[i] = "returned"
               /\ outcome'[i] = Skipped(slugs[i])
               /\ reqs'[i] = 0
               /\ reqs' = reqs
               /\ files' = files]_vars

\* A second call for a slug, after the first call of the same run wrote its
\* file, was skipped without a request.
C3_Witness ==
    \E i, j \in Items :
        /\ j < i
        /\ slugs[i] = slugs[j]
        /\ ~store0[slugs[i]].exists
        /\ outcome[j].tag = "OK"
        /\ outcome[i].tag = "SKIP"
        /\ reqs[i] = 0

\* C4: an invocation answered with a status other than 200 returns
\* FailedHTTP with that status, and its destination file is not there unless
\* it was there before the run or another invocation for the same slug
\* opened it.
C4_FailedHTTPNoFile ==
    \A i \in Items :
        (Returned(i) /\ resp[i].exc = "none" /\ resp[i].status \notin { 0, 200 })
            => /\ outcome[i] = FailedHTTP(slugs[i], resp[i].status)
               /\ ( ( /\ ~store0[slugs[i]].exists
                      /\ \A j \in Items :
                            slugs[j] = slugs[i] => resp[j].status # 200 )
                    => ~files[slugs[i]].exists )

\* An invocation answered 500 has returned and its file is not there.
C4_Witness ==
    \E i \in Items :
        /\ Returned(i)
        /\ resp[i].status = 500
        /\ outcome[i] = FailedHTTP(slugs[i], 500)
        /\ ~files[slugs[i]].exists

\* C5: every invocation that has ended returned one of the four outcomes,
\* FailedTransport with the exception's message when the request or the
\* streaming of the body raised; the process is never ended by an item's
\* fault (it ends abnormally only before any slug is submitted).
C5_NoExceptionEscapes ==
    /\ \A i \in Items :
        Returned(i) =>
            /\ outcome[i].tag \in OutcomeTags
            /\ resp[i].exc # "none"
                => outcome[i] = FailedTransport(slugs[i], resp[i].exc)
    /\ pc = "crashed" => slugs = << >>

\* A run has finished in which the body of one item failed while it was
\* streamed and the request of another raised.
C5_Witness ==
    /\ pc = "done"
    /\ \E i, j \in Items :
        /\ outcome[i] = FailedTransport(slugs[i], StreamException)
        /\ outcome[j] = FailedTransport(slugs[j], "ConnectionError")

DistinctSlugs == \A i, j \in Items : slugs[i] = slugs[j] => i = j

\* What the reply it got entitles an item to.
ExpectedOutcome(i) ==
    IF resp[i].exc # "none" THEN FailedTransport(slugs[i], resp[i].exc)
    ELSE IF resp[i].status = 200 THEN Succeeded(slugs[i])
    ELSE FailedHTTP(slugs[i], resp[i].status)

\* C6: in a finished batch of distinct slugs none of which had a file, the
\* results hold for every slug the outcome its own reply calls for, whatever
\* the other slugs got, and every slug whose download succeeded has its file
\* with the whole body in it.
C6_Isolation ==
    ( /\ pc = "done"
      /\ slugs # << >>
      /\ DistinctSlugs
      /\ \A i \in Items : ~store0[slugs[i]].exists )
        => /\ Len(results) = Len(slugs)
           /\ \A i \in Items :
                /\ \E k \in 1..Len(results) : results[k] = ExpectedOutcome(i)
                /\ (resp[i].exc = "none" /\ resp[i].status = 200)
                    => /\ outcome[i] = Succeeded(slugs[i])
                       /\ files[slugs[i]] = File(Body(slugs[i]))

\* A finished batch of two distinct slugs: one answered 500, the other
\* succeeded and has its file.
C6_Witness ==
    /\ pc = "done"
    /\ DistinctSlugs
    /\ \A i \in Items : ~store0[slugs[i]].exists
    /\ \E i, j \in Items :
        /\ outcome[i] = FailedHTTP(slugs[i], 500)
        /\ outcome[j] = Succeeded(slugs[j])
        /\ files[slugs[j]] = File(Body(slugs[j]))

\* Page k of the listing is answered 200 with at least one item.
OkNonEmpty(k) ==
    /\ listing[k].exc = "none"
    /\ listing[k].status = 200
    /\ listing[k].plugins # << >>

\* The items of pages 1..n, in page order.
RECURSIVE ConcatPages(_)
ConcatPages(n) ==
    IF n = 0 THEN << >> ELSE ConcatPages(n - 1) \o listing[n].plugins

\* The listing is N non-empty pages followed by an empty one.
EndsWithEmptyPage == \A k \in 1..Len(listing) : OkNonEmpty(k)

\* C7: against a listing of N non-empty pages followed by an empty page,
\* fetch_plugins is still running only while it has made fewer than N+1
\* requests, and when it has returned it has requested pages 1..N+1 in that
\* order and returned the items of the N pages in page order.
C7_PaginationTermination ==
    EndsWithEmptyPage =>
        LET N == Len(listing) IN
        /\ pc = "fetch" =>
            /\ Len(requested) <= N
            /\ requested = [k \in 1..Len(requested) |-> k]
        /\ pc # "fetch" =>
            /\ requested = [k \in 1..(N + 1) |-> k]
            /\ plugins = ConcatPages(N)

\* fetch_plugins has returned the items of two non-empty pages that differ.
C7_Witness ==
    /\ EndsWithEmptyPage
    /\ Len(listing) = 2
    /\ listing[1] # listing[2]
    /\ pc # "fetch"
    /\ Len(requested) = 3
    /\ Len(plugins) = 3

\* Page k is the first page not answered 200, after k-1 non-empty pages.
HttpFailAt(k) ==
    /\ k \in 1..Len(listing)
    /\ listing[k].exc = "none"
    /\ listing[k].status # 200
    /\ \A j \in 1..(k - 1) : OkNonEmpty(j)

\* C8: when page k is answered with a status other than 200, fetch_plugins
\* is still running only while it has made fewer than k requests, and when it
\* has returned it has requested exactly pages 1..k, each once, and returned
\* the items of pages 1..k-1.
C8_StopsOnStatus ==
    \A k \in 1..Len(listing) :
        HttpFailAt(k) =>
            /\ pc = "fetch" => Len(requested) < k
            /\ pc # "fetch" =>
                /\ requested = [j \in 1..k |-> j]
                /\ plugins = ConcatPages(k - 1)

\* fetch_plugins has returned one page of items after page 2 was answered
\* 503.
C8_Witness ==
    /\ HttpFailAt(2)
    /\ pc # "fetch"
    /\ requested = << 1, 2 >>
    /\ plugins = listing[1].plugins
    /\ plugins # << >>

\* The request for page k raises, after k-1 non-empty pages.
ExcAt(k) ==
    /\ k \in 1..Len(listing)
    /\ listing[k].exc # "none"
    /\ \A j \in 1..(k - 1) : OkNonEmpty(j)

\* C9: when the request for page k raises a transport error, the process
\* does not end there: enumeration stops and the program goes on to filter
\* and download with the items of pages 1..k-1.
C9_TransportErrorNonFatal ==
    \A k \in 1..Len(listing) :
        (ExcAt(k) /\ Len(requested) >= k) =>
            /\ pc # "crashed"
            /\ pc \in { "filter", "dispatch", "done" }
            /\ plugins = ConcatPages(k - 1)

\* The indices of the records of ps within [lo, hi], a record without
\* active_installs counting as 0.
Qualifying(ps, lo, hi) ==
    { i \in 1..Len(ps) :
        LET n == IF "active_installs" \in DOMAIN ps[i]
                 THEN ps[i].active_installs ELSE 0
        IN lo <= n /\ n <= hi }

\* The k-th smallest member of a set of indices.
Nth(Q, k) == CHOOSE i \in Q : Cardinality({ j \in Q : j < i }) = k - 1

\* C10: once main has filtered, filtered is exactly the records of plugins
\* with min <= active_installs <= max (0 if absent), in their original order;
\* for an inverted range it is empty and the program completes.
C10_FilterCorrect ==
    pc \in { "dispatch", "done" } =>
        LET Q == Qualifying(plugins, min_installs, max_installs) IN
        /\ Len(filtered) = Cardinality(Q)
        /\ \A k \in 1..Len(filtered) : filtered[k] = plugins[Nth(Q, k)]
        /\ min_installs > max_installs => (filtered = << >> /\ pc = "done")

\* A filter that kept the first and the third of four records and dropped a
\* record above the range.
C10_Witness ==
    /\ pc \in { "dispatch", "done" }
    /\ Len(plugins) = 4
    /\ Len(filtered) = 2
    /\ filtered[1] = plugins[1]
    /\ filtered[2] = plugins[3]

\* C11: when no collected record lies within [min, max], the program
\* completes without a single download attempt: nothing is submitted, no
\* invocation starts, no request is sent and no file is created or changed.
C11_EmptyFilterNoDownloads ==
    ( /\ pc \in { "dispatch", "done" }
      /\ Qualifying(plugins, min_installs, max_installs) = { } )
        => /\ pc = "done"
           /\ slugs = << >>
           /\ calls = << >>
           /\ reqs = << >>
           /\ results = << >>
           /\ files = store0

\* The program has completed on a listing of records none of which is in
\* range, although the range is not inverted.
C11_Witness ==
    /\ pc = "done"
    /\ plugins # << >>
    /\ min_installs <= max_installs
    /\ Qualifying(plugins, min_installs, max_installs) = { }
    /\ slugs = << >>

\* The invocations that have returned.
Finished == { i \in Items : Returned(i) }

\* C12: the progress count follows the fetches that have finished, in
\* whatever order they finish: while fewer results have been counted than
\* fetches have finished, the next count is due at once, whether or not
\* fetches submitted earlier are still in flight.
C12_ProgressAsItemsFinish ==
    (pc = "dispatch" /\ Len(results) < Cardinality(Finished))
        => Returned(Len(results) + 1)

\* Every item but the first has returned.
OthersReturned == \A i \in Others : i <= Len(tpc) /\ tpc[i] = "returned"

\* C13: however long the fetch of the first slug takes, every other
\* submitted slug is eventually started and finished; and once the first
\* fetch has returned too, the download phase ends with all results
\* collected.
C13_SlowItemBlocksNoOther ==
    /\ (pc = "dispatch") ~> OthersReturned
    /\ (pc = "dispatch" /\ Len(tpc) >= 1 /\ tpc[1] = "returned")
        ~> (pc = "done" /\ Len(results) = Len(slugs))

\* The first fetch still waits for its response while the ten other slugs
\* of the batch have all finished.
C13_Witness ==
    /\ pc = "dispatch"
    /\ Len(slugs) > max_workers
    /\ tpc[1] = "requesting"
    /\ \A i \in Others : tpc[i] = "returned"

\* C14: starting from an empty destination directory, a file that no
\* invocation is writing any more is there only if a fetch of its slug
\* returned Succeeded, and then it holds the whole body; a fetch that fails
\* while the body is streamed leaves no file for a later existence check to
\* take for a finished archive.
C14_NoTruncatedArchive ==
    store0 = EmptyStore =>
        \A s \in Slugs :
            ( /\ files[s].exists
              /\ \A i \in Items : slugs[i] = s => tpc[i] # "writing" )
                => /\ \E i \in Items : slugs[i] = s /\ outcome[i] = Succeeded(s)
                   /\ files[s].data = Body(s)

\* C15: at no instant are two invocations in flight that both have the same
\* destination file open for writing, whatever the listing, one that repeats
\* a slug included.
C15_NoTwoWritersOfOneFile ==
    \A i, j \in Items :
        (i # j /\ tpc[i] = "writing" /\ tpc[j] = "writing")
            => slugs[i] # slugs[j]

\* C16: the results are in submission order: the k-th result collected is
\* the outcome of the fetch of the k-th submitted slug, whatever order the
\* fetches finished in.
C16_ResultsInSubmissionOrder ==
    /\ Len(results) <= Len(slugs)
    /\ \A k \in 1..Len(results) :
        /\ Returned(k)
        /\ results[k] = outcome[k]
        /\ results[k].slug = slugs[k]
    /\ pc = "done" => Len(results) = Len(slugs)

\* The first result has been collected, and the third fetch has finished
\* while the second, submitted before it, has not: its result waits.
C16_Witness ==
    /\ pc = "dispatch"
    /\ Len(slugs) >= 3
    /\ Len(results) = 1
    /\ results[1] = outcome[1]
    /\ tpc[2] = "called"
    /\ tpc[3] = "returned"

\* The page at which pagination stops: the first that is not answered 200
\* with items.
StopPage ==
    CHOOSE k \in 1..(Len(listing) + 1) :
        /\ k <= Len(listing) => ~OkNonEmpty(k)
        /\ \A j \in 1..(k - 1) : OkNonEmpty(j)

\* Slug s belongs to a record of a page before the one where pagination
\* stopped whose active_installs (0 if absent) lies within [min, max].
CollectedInRange(s) ==
    \E k \in 1..(StopPage - 1) :
        \E n \in 1..Len(listing[k].plugins) :
            LET p == listing[k].plugins[n]
                a == IF "active_installs" \in DOMAIN p
                     THEN p.active_installs ELSE 0
            IN p.slug = s /\ min_installs <= a /\ a <= max_installs

\* C17: every slug submitted for download, and so every slug for which a
\* request is sent, belongs to a collected record within range, and only the
\* files of such slugs are ever created or changed.
C17_OnlyCollectedInRange ==
    /\ \A i \in Items : CollectedInRange(slugs[i])
    /\ \A s \in Slugs : files[s] # store0[s] => CollectedInRange(s)

\* A run has finished that downloaded slug 2 from page 1, while the records
\* of slug 1, one out of reach on the page after the failed page 2, and of
\* slug 3, out of range, got no file.
C17_Witness ==
    /\ pc = "done"
    /\ HttpFailAt(2)
    /\ Len(listing) = 3
    /\ listing[3].plugins # << >>
    /\ slugs = << 2 >>
    /\ files[2] = File(Body(2))
    /\ ~files[1].exists
    /\ ~files[3].exists

====
